---- MODULE Spec2Model ----
(***************************************************************************)
(* The songs API: five gin handlers (getSongs, getSongText, deleteSong,    *)
(* updateSong, createSong) over one "songs" table.  The repository holds   *)
(* two builds of the program, src/main.go and src/unnamed/part_000; they   *)
(* differ in how getSongs defaults the limit.  One request is one action:  *)
(* the handler binds its input, issues its single SQL statement and writes *)
(* one response.                                                           *)
(***************************************************************************)
EXTENDS Integers, Sequences, FiniteSets, TLC

\* Bounds of the model.
MaxSongs == 2    \* identifiers the sequence hands out before creates stop

---------------------------------------------------------------------------
(* Go's int on the 64-bit targets of the build.  A value is kept as        *)
(* hi * 2^32 + lo with both parts small, so that products of 2^32-sized    *)
(* query parameters are computed exactly as the machine computes them:     *)
(* the 2^64 term of a product is what the multiplication drops.            *)

GoInt(h, l) == [hi |-> h, lo |-> l]

Small(n) == GoInt(0, n)

IntAdd(a, b) == GoInt(a.hi + b.hi, a.lo + b.lo)

IntSub(a, b) == GoInt(a.hi - b.hi, a.lo - b.lo)

\* a * b modulo 2^64: (a.hi*2^32 + a.lo) * (b.hi*2^32 + b.lo) without the
\* a.hi * b.hi * 2^64 term.
IntMul(a, b) == GoInt(a.hi * b.lo + a.lo * b.hi, a.lo * b.lo)

IntLess(a, b) == a.hi < b.hi \/ (a.hi = b.hi /\ a.lo < b.lo)

IntLeq(a, b) == a = b \/ IntLess(a, b)

---------------------------------------------------------------------------
(* Song and NullString.                                                    *)

NullString(s, v) == [String |-> s, Valid |-> v]

NoGroup == NullString("", FALSE)

Song(i, ti, ar, rd, tx, ln, gn) ==
    [id |-> i, title |-> ti, artist |-> ar, releaseDate |-> rd,
     text |-> tx, link |-> ln, groupName |-> gn]

\* Lyric texts are sequences of characters; NL is the newline character.
NL == "\n"

Text3 == <<"A", NL, NL, "B", NL, NL, "C">>

Text2 == <<"A", NL, NL, NL, "B">>

Text1 == <<"A">>

\* The JSON bodies clients send to create and update: three complete ones
\* (one carrying an id and a group name of its own) and one body for each
\* required field left out or empty.
FullSongs ==
    { Song(0, "T", "A", "D", Text3, "L", NoGroup),
      Song(7, "U", "A", "D", Text2, "L", NullString("G", TRUE)),
      Song(0, "T", "A", "D", Text1, "L", NoGroup) }

PartialSongs ==
    { Song(0, "",  "A", "D", Text3, "L", NoGroup),
      Song(0, "T", "",  "D", Text3, "L", NoGroup),
      Song(0, "T", "A", "",  Text3, "L", NoGroup),
      Song(0, "T", "A", "D", <<>>,  "L", NoGroup),
      Song(0, "T", "A", "D", Text3, "",  NullString("G", TRUE)) }

Bodies == FullSongs \cup PartialSongs

NoSong == Song(0, "", "", "", <<>>, "", NoGroup)

\* The :id path parameter is a string: either the decimal form of an
\* integer or something that is no integer at all.
PathId(n) == [num |-> TRUE, val |-> n]

NotANumber == [num |-> FALSE, val |-> 0]

PathIds == {PathId(n) : n \in 1..MaxSongs} \cup {NotANumber}

\* Query parameters: small integers around zero and two values of the size
\* of 2^32 (page = 2^32 + 1, limit = 2^32).  An absent parameter binds as 0.
Pages == {Small(0), Small(1), Small(2), Small(3), GoInt(1, 1)}

Limits == {Small(-1), Small(0), Small(1), Small(2), GoInt(1, 0)}

DefaultLimit == 10

---------------------------------------------------------------------------
VARIABLES
    build,     \* which of the two builds runs: "main" or "part_000"
    table,     \* the songs table: identifier -> row
    nextId,    \* the next value of the identifier sequence
    req,       \* the request the last handler served
    store,     \* the statement that handler sent to the store, and its outcome
    resp,      \* the response it wrote
    issued,    \* identifiers returned by creates so far
    deleted    \* identifiers whose delete returned 200 so far

vars == <<build, table, nextId, req, store, resp, issued, deleted>>

---------------------------------------------------------------------------
(* strings.Split(text, "\n\n"): the pieces between successive              *)
(* non-overlapping occurrences of the separator, scanning from the left.   *)

RECURSIVE IndexFrom(_, _)
\* Position of the first "\n\n" of s at or after i; 0 when there is none.
IndexFrom(s, i) ==
    IF i + 1 > Len(s) THEN 0
    ELSE IF s[i] = NL /\ s[i + 1] = NL THEN i
    ELSE IndexFrom(s, i + 1)

RECURSIVE Split(_)
Split(s) ==
    LET i == IndexFrom(s, 1)
    IN  IF i = 0 THEN <<s>>
        ELSE <<SubSeq(s, 1, i - 1)>> \o Split(SubSeq(s, i + 2, Len(s)))

\* verses[lo:hi] panics unless 0 <= lo <= hi <= cap(verses); Split returns
\* a slice whose capacity is its length.
SliceInRange(s, lo, hi) ==
    /\ IntLeq(Small(0), lo)
    /\ IntLeq(lo, hi)
    /\ IntLeq(hi, Small(Len(s)))

SliceOf(s, lo, hi) == SubSeq(s, lo.lo + 1, hi.lo)

---------------------------------------------------------------------------
(* The statements the handlers send, over the table as the store holds it. *)

Min(a, b) == IF a < b THEN a ELSE b

RECURSIVE OrderById(_, _)
\* The rows of t whose identifier is at least i, by identifier ascending.
OrderById(t, i) ==
    IF i > MaxSongs THEN <<>>
    ELSE (IF i \in DOMAIN t THEN <<t[i]>> ELSE <<>>) \o OrderById(t, i + 1)

\* SELECT * FROM songs ORDER BY id LIMIT $1 OFFSET $2: the store rejects a
\* negative LIMIT or OFFSET.
SelectRejects(limit, offset) ==
    IntLess(limit, Small(0)) \/ IntLess(offset, Small(0))

SelectSongs(t, limit, offset) ==
    LET rows == OrderById(t, 1)
        n    == Len(rows)
    IN  IF ~IntLess(offset, Small(n)) THEN <<>>
        ELSE IF IntLess(Small(n), limit) THEN SubSeq(rows, offset.lo + 1, n)
        ELSE SubSeq(rows, offset.lo + 1, Min(n, offset.lo + limit.lo))

\* WHERE id = $1 with the path parameter: a parameter that is no integer
\* makes the statement fail; otherwise it selects the row with that id.
Matches(t, id) == IF id.num /\ id.val \in DOMAIN t THEN {id.val} ELSE {}

RowsAffected(t, id) == Cardinality(Matches(t, id))

\* The DELETE without its WHERE clause.
ExecDeleteAll(t, id) == IF Matches(t, id) = {} THEN t ELSE << >>

\* DELETE FROM songs WHERE id = $1
ExecDelete(t, id) == [i \in DOMAIN t \ Matches(t, id) |-> t[i]]

\* UPDATE songs SET title, artist, release_date, text, link WHERE id = $6
ExecUpdate(t, id, song) ==
    [i \in DOMAIN t |->
        IF i \in Matches(t, id)
        THEN [t[i] EXCEPT !.title = song.title, !.artist = song.artist,
                          !.releaseDate = song.releaseDate,
                          !.text = song.text, !.link = song.link]
        ELSE t[i]]

\* INSERT INTO songs (title, artist, release_date, text, link): the row
\* gets the identifier the store assigned and no group name.
ExecInsert(t, id, song) ==
    [i \in DOMAIN t \cup {id} |->
        IF i = id
        THEN Song(id, song.title, song.artist, song.releaseDate,
                  song.text, song.link, NoGroup)
        ELSE t[i]]

\* The identifier column's sequence: each value is handed out once.
NextVal(n) == n + 1

\* What a store call can meet: nothing, a connection that fails before the
\* statement runs, or a statement that fails while it runs.
Failures == {"none", "connection", "statement"}

\* A statement that only reads or only matches rows leaves nothing behind
\* when it fails, however it fails.
ReadFailures == {"none", "connection"}

---------------------------------------------------------------------------
(* Requests, store calls and responses.                                    *)

\* The query strings of the two GET routes: page and limit that parse, and
\* one query whose page or limit is no integer.
Queries ==
    {[ok |-> TRUE, page |-> p, limit |-> l] : p \in Pages, l \in Limits}
        \cup {[ok |-> FALSE, page |-> Small(0), limit |-> Small(0)]}

Request(op, id, q, song, fail) ==
    [op |-> op, id |-> id, query |-> q, song |-> song, fail |-> fail]

NoQuery == [ok |-> TRUE, page |-> Small(0), limit |-> Small(0)]

\* The statement of a request: whether one was sent, whether it failed,
\* the LIMIT and OFFSET it carried and the rows it found or changed.
StoreCall(err, limit, offset, rows) ==
    [called |-> TRUE, err |-> err, limit |-> limit, offset |-> offset,
     rows |-> rows]

NoStoreCall ==
    [called |-> FALSE, err |-> FALSE, limit |-> Small(0),
     offset |-> Small(0), rows |-> 0]

Response(status, error, songs, verses, song) ==
    [status |-> status, error |-> error, songs |-> songs,
     verses |-> verses, song |-> song, panicked |-> FALSE]

\* gin.Default() installs the recovery middleware: a handler that panics
\* ends the request with 500 and no body of the handler's own.
Recovered ==
    [status |-> 500, error |-> "panic", songs |-> <<>>, verses |-> <<>>,
     song |-> NoSong, panicked |-> TRUE]

ErrorResponse(status, error) == Response(status, error, <<>>, <<>>, NoSong)

\* The binding with the tag left off Text.
ShouldBindJSONTextOptional(song) ==
    /\ song.title # ""
    /\ song.artist # ""
    /\ song.releaseDate # ""
    /\ song.link # ""

\* binding:"required" on Title, Artist, ReleaseDate, Text and Link: the
\* body binds only when none of them is absent or empty.
ShouldBindJSON(song) ==
    /\ song.title # ""
    /\ song.artist # ""
    /\ song.releaseDate # ""
    /\ song.text # <<>>
    /\ song.link # ""

ShouldBindQuery(q) == q.ok

\* The page getSongs uses.
EffectivePage(page) == IF IntLeq(page, Small(0)) THEN Small(1) ELSE page

\* The limit getSongs uses, in src/main.go ...
EffectiveLimit(limit) ==
    IF IntLeq(limit, Small(0)) THEN Small(DefaultLimit) ELSE limit

\* ... and in src/unnamed/part_000.
EffectiveLimitPart000(limit) ==
    IF limit = Small(0) THEN Small(DefaultLimit) ELSE limit

\* offset := (pagination.Page - 1) * limit
Offset(page, limit) == IntMul(IntSub(page, Small(1)), limit)

\* The status without the rowsAffected == 0 branch.
ExecStatusUnchecked(err, rowsAffected) == IF err THEN 500 ELSE 200

\* The status deleteSong and updateSong give to the outcome of db.Exec.
ExecStatus(err, rowsAffected) ==
    IF err THEN 500 ELSE IF rowsAffected = 0 THEN 404 ELSE 200

\* The answer without the Scan into song.ID.
CreatedSongUnscanned(song, id) == song

\* The song createSong answers with: the bound body with the scanned id.
CreatedSong(song, id) == [song EXCEPT !.id = id]

---------------------------------------------------------------------------
Boot(b) ==
    /\ build = b
    /\ table = << >>
    /\ nextId = 1
    /\ req = Request("none", NotANumber, NoQuery, NoSong, "none")
    /\ store = NoStoreCall
    /\ resp = ErrorResponse(0, "")
    /\ issued = {}
    /\ deleted = {}

getSongs(q, fail) ==
    LET page   == EffectivePage(q.page)
        limit  == IF build = "main" THEN EffectiveLimit(q.limit)
                  ELSE EffectiveLimitPart000(q.limit)
        offset == Offset(page, limit)
        err    == fail # "none" \/ SelectRejects(limit, offset)
    IN  /\ req' = Request("list", NotANumber, q, NoSong, fail)
        /\ IF ~ShouldBindQuery(q)
           THEN /\ store' = NoStoreCall
                /\ resp' = ErrorResponse(400, "bind")
           ELSE /\ store' = StoreCall(err, limit, offset, 0)
                /\ resp' = IF err
                           THEN ErrorResponse(500, "Internal Server Error")
                           ELSE Response(200, "",
                                    SelectSongs(table, limit, offset),
                                    <<>>, NoSong)
        /\ UNCHANGED <<build, table, nextId, issued, deleted>>

getSongText(id, q, fail) ==
    LET found  == Matches(table, id)
        err    == fail # "none" \/ ~id.num \/ found = {}
        text   == IF found = {} THEN <<>> ELSE table[id.val].text
        verses == Split(text)
        n      == Small(Len(verses))
        start  == IntMul(IntSub(q.page, Small(1)), q.limit)
        end    == IntAdd(start, q.limit)
        end2   == IF IntLess(n, end) THEN n ELSE end
    IN  /\ req' = Request("text", id, q, NoSong, fail)
        /\ IF ~ShouldBindQuery(q)
           THEN /\ store' = NoStoreCall
                /\ resp' = ErrorResponse(400, "bind")
           ELSE /\ store' = StoreCall(fail # "none" \/ ~id.num, Small(0),
                                      Small(0), Cardinality(found))
                /\ resp' =
                     IF err THEN ErrorResponse(404, "Song not found")
                     ELSE IF text = <<>>
                     THEN ErrorResponse(404, "No text found for this song")
                     ELSE IF ~IntLess(start, n)
                     THEN Response(200, "", <<>>, <<>>, NoSong)
                     ELSE IF SliceInRange(verses, start, end2)
                     THEN Response(200, "", <<>>,
                                   SliceOf(verses, start, end2), NoSong)
                     ELSE Recovered
        /\ UNCHANGED <<build, table, nextId, issued, deleted>>

deleteSong(id, fail) ==
    LET err    == fail # "none" \/ ~id.num
        rows   == IF err THEN 0 ELSE RowsAffected(table, id)
        status == ExecStatus(err, rows)
    IN  /\ req' = Request("delete", id, NoQuery, NoSong, fail)
        /\ store' = StoreCall(err, Small(0), Small(0), rows)
        /\ table' = IF err THEN table ELSE ExecDelete(table, id)
        /\ resp' = IF status = 500
                   THEN ErrorResponse(500, "Internal server error")
                   ELSE IF status = 404
                   THEN ErrorResponse(404, "Song not found")
                   ELSE ErrorResponse(200, "Song deleted successfully")
        /\ deleted' = IF status = 200 THEN deleted \cup {id.val} ELSE deleted
        /\ UNCHANGED <<build, nextId, issued>>

updateSong(id, song, fail) ==
    LET err    == fail # "none" \/ ~id.num
        rows   == IF err THEN 0 ELSE RowsAffected(table, id)
        status == ExecStatus(err, rows)
    IN  /\ req' = Request("update", id, NoQuery, song, fail)
        /\ IF ~ShouldBindJSON(song)
           THEN /\ store' = NoStoreCall
                /\ table' = table
                /\ resp' = ErrorResponse(400, "bind")
           ELSE /\ store' = StoreCall(err, Small(0), Small(0), rows)
                /\ table' = IF err THEN table
                            ELSE ExecUpdate(table, id, song)
                /\ resp' = IF status = 500
                           THEN ErrorResponse(500, "Internal server error")
                           ELSE IF status = 404
                           THEN ErrorResponse(404, "Song not found")
                           ELSE ErrorResponse(200, "Song updated successfully")
        /\ UNCHANGED <<build, nextId, issued, deleted>>

createSong(song, fail) ==
    /\ nextId <= MaxSongs
    /\ req' = Request("create", NotANumber, NoQuery, song, fail)
    /\ IF ~ShouldBindJSON(song)
       THEN /\ store' = NoStoreCall
            /\ resp' = ErrorResponse(400, "bind")
            /\ UNCHANGED <<table, nextId, issued>>
       ELSE IF fail # "none"
       THEN \* a statement that fails while it runs has already drawn its
            \* identifier from the sequence
            /\ store' = StoreCall(TRUE, Small(0), Small(0), 0)
            /\ resp' = ErrorResponse(500, "insert")
            /\ nextId' = IF fail = "statement" THEN NextVal(nextId)
                         ELSE nextId
            /\ UNCHANGED <<table, issued>>
       ELSE /\ store' = StoreCall(FALSE, Small(0), Small(0), 1)
            /\ table' = ExecInsert(table, nextId, song)
            /\ nextId' = NextVal(nextId)
            /\ resp' = Response(201, "", <<>>, <<>>,
                                CreatedSong(song, nextId))
            /\ issued' = issued \cup {resp'.song.id}
    /\ UNCHANGED <<build, deleted>>

\* The requests clients send.  A request that does not bind never reaches
\* the store, and a store call that fails does so whatever the page and
\* limit are, so those are sent with one failure mode and one query each.
ListRequests ==
    {r \in [query : Queries, fail : ReadFailures] :
        r.fail # "none" => r.query = NoQuery}

TextRequests ==
    {r \in [id : PathIds, query : Queries, fail : ReadFailures] :
        r.fail # "none" => r.query = NoQuery}

DeleteRequests == [id : PathIds, fail : ReadFailures]

UpdateRequests ==
    {r \in [id : PathIds, song : Bodies, fail : ReadFailures] :
        r.fail # "none" => ShouldBindJSON(r.song)}

CreateRequests ==
    {r \in [song : Bodies, fail : Failures] :
        r.fail # "none" => ShouldBindJSON(r.song)}

Next ==
    \/ \E r \in ListRequests : getSongs(r.query, r.fail)
    \/ \E r \in TextRequests : getSongText(r.id, r.query, r.fail)
    \/ \E r \in DeleteRequests : deleteSong(r.id, r.fail)
    \/ \E r \in UpdateRequests : updateSong(r.id, r.song, r.fail)
    \/ \E r \in CreateRequests : createSong(r.song, r.fail)

\* The build of src/main.go ...
Init == Boot("main")

Spec == Init /\ [][Next]_vars

\* ... and the build of src/unnamed/part_000.
InitPart000 == Boot("part_000")

SpecPart000 == InitPart000 /\ [][Next]_vars

---------------------------------------------------------------------------
(* The properties.  A step of Next serves the request it leaves in req',   *)
(* on the table as it stands before the step.                              *)

\* The store answered the statement of the last request without an error.
StoreAnswered == store.called /\ ~store.err

\* a * b >= n over the integers (no wrapping), for n >= 0 small.
ProductAtLeast(a, b, n) ==
    LET top == a.hi * b.hi
    IN  top > 0 \/ (top = 0 /\ IntLeq(Small(n), IntMul(a, b)))

\* a * b < 0 over the integers.
ProductNegative(a, b) ==
    LET top == a.hi * b.hi
    IN  top < 0 \/ (top = 0 /\ IntLess(IntMul(a, b), Small(0)))

Max(a, b) == IF a > b THEN a ELSE b

\* The verses at indices start .. min(end, len) - 1, start = (page-1)*limit
\* and end = start + limit taken over the integers.
VersesOfPage(verses, page, limit) ==
    LET pm1 == IntSub(page, Small(1))
        n   == Len(verses)
    IN  IF ProductAtLeast(pm1, limit, n) THEN <<>>
        ELSE LET start == IF ProductNegative(pm1, limit) THEN 0
                          ELSE IntMul(pm1, limit).lo
                 end   == IF limit.hi > 0 THEN n
                          ELSE Min(n, IntMul(pm1, limit).lo + limit.lo)
             IN  SubSeq(verses, Max(start, 0) + 1, end)

\* The rows at positions (p-1)*l + 1 .. p*l of the rows in identifier
\* order, the product taken over the integers.
RowsOfPage(t, p, l) ==
    LET pm1  == IntSub(p, Small(1))
        rows == OrderById(t, 1)
        n    == Len(rows)
    IN  IF ProductAtLeast(pm1, l, n) THEN <<>>
        ELSE LET first == IntMul(pm1, l).lo
                 last  == IF l.hi > 0 THEN n ELSE Min(n, first + l.lo)
             IN  SubSeq(rows, first + 1, last)

\* The last request was a get-text on an existing song with non-empty text
\* whose page and limit bound and whose query the store answered.
TextServed ==
    /\ req.op = "text"
    /\ req.query.ok
    /\ StoreAnswered
    /\ Matches(table, req.id) # {}
    /\ table[req.id.val].text # <<>>

\* C1: get-text on an existing song with non-empty text answers 200 with
\* exactly the verses at indices start .. min(end, len(verses)) - 1 in
\* their order, and 200 with an empty array when start >= len(verses),
\* where start = (page-1)*limit and end = start + limit.
C1_TextPageIsTheRequestedRange ==
    TextServed =>
        /\ resp.status = 200
        /\ resp.verses = VersesOfPage(Split(table[req.id.val].text),
                                      req.query.page, req.query.limit)

\* C2: for every get-text request that binds, on an existing song with
\* non-empty text, start = (page-1)*limit is never negative and the
\* handler ends in 200, 400 or 404, never in an unhandled failure.
C2_TextNeverFailsUnmapped ==
    TextServed =>
        /\ ~ProductNegative(IntSub(req.query.page, Small(1)),
                            req.query.limit)
        /\ ~resp.panicked
        /\ resp.status \in {200, 400, 404}

\* C3: for every list request with limit <= 0 the limit passed to the
\* store query is 10 and the offset is computed from that limit.
C3_ListDefaultsLimitToTen ==
    (req.op = "list" /\ req.query.ok
        /\ IntLeq(req.query.limit, Small(0))) =>
        /\ store.called
        /\ store.limit = Small(10)
        /\ store.offset = IntMul(IntSub(EffectivePage(req.query.page),
                                        Small(1)), Small(10))

\* C4: every list request that binds and meets no store failure answers
\* 200 with exactly the rows at positions (p-1)*l + 1 .. p*l of the table
\* in identifier order (an empty array when there are none), p being the
\* page with every page <= 0 taken as 1 and l the effective limit.
C4_ListPageIsTheRequestedRange ==
    (req.op = "list" /\ req.query.ok /\ StoreAnswered) =>
        /\ resp.status = 200
        /\ resp.songs = RowsOfPage(table,
               IF IntLeq(req.query.page, Small(0)) THEN Small(1)
               ELSE req.query.page,
               store.limit)

\* C5: an update with a valid payload, or a delete, of an id that has no
\* row answers 404 (the store having answered the statement), and the
\* table is the same before and after the request.
C5_MissingIdIs404AndNoChange ==
    [][ (req'.op \in {"update", "delete"} /\ req'.id.num
            /\ req'.id.val \notin DOMAIN table
            /\ (req'.op = "update" => ShouldBindJSON(req'.song)))
        => /\ table' = table
           /\ (store'.called /\ ~store'.err) => resp'.status = 404 ]_vars

C5_Witness ==
    /\ req.op = "update"
    /\ req.id.num
    /\ req.id.val \notin DOMAIN table
    /\ DOMAIN table # {}
    /\ StoreAnswered
    /\ resp.status = 404

\* The rows carry their key as identifier.
RowsKeyed == \A i \in DOMAIN table : table[i].id = i

\* C6: a create with all required fields present (the store accepting the
\* insert) answers 201 with the payload's fields and an identifier no
\* earlier create returned, adds exactly one row, with that identifier,
\* and the identifiers of the rows are pairwise distinct in every state.
C6_CreateReturnsFreshId ==
    /\ []RowsKeyed
    /\ [][ (req'.op = "create" /\ ShouldBindJSON(req'.song)
               /\ store'.called /\ ~store'.err)
           => LET id == resp'.song.id
              IN  /\ resp'.status = 201
                  /\ resp'.song = [req'.song EXCEPT !.id = id]
                  /\ id \notin issued
                  /\ id \notin DOMAIN table
                  /\ DOMAIN table' = DOMAIN table \cup {id}
                  /\ table'[id].id = id
                  /\ table'[id].title = req'.song.title
                  /\ table'[id].text = req'.song.text
                  /\ \A i \in DOMAIN table : table'[i] = table[i] ]_vars

C6_Witness ==
    /\ req.op = "create"
    /\ resp.status = 201
    /\ deleted # {}
    /\ resp.song.id \in DOMAIN table
    /\ Cardinality(issued) > 1

\* C7: a delete that answers 200 removes exactly the row of its id and
\* leaves every other row as it was; afterwards every delete, update or
\* get-text of that id that binds and whose statement the store answers
\* gets 404, none ever gets 200, and no create brings the id back.
C7_DeletedStaysDeleted ==
    /\ [](deleted \cap DOMAIN table = {})
    /\ [][ (req'.op = "delete" /\ resp'.status = 200)
           => /\ req'.id.val \in DOMAIN table
              /\ DOMAIN table' = DOMAIN table \ {req'.id.val}
              /\ \A i \in DOMAIN table' : table'[i] = table[i] ]_vars
    /\ [][ (req'.op \in {"delete", "update", "text"} /\ req'.id.num
               /\ req'.id.val \in deleted)
           => /\ resp'.status # 200
              /\ (store'.called /\ ~store'.err) => resp'.status = 404 ]_vars

C7_Witness ==
    /\ req.op = "delete"
    /\ req.id.num
    /\ req.id.val \in deleted
    /\ StoreAnswered
    /\ resp.status = 404
    /\ \E i \in DOMAIN table : i > req.id.val

\* C8: in every handler a store call that fails answers 500; 404 is
\* answered only when the store call succeeded and found no row for the
\* id (or, for get-text, found empty text).
C8_StoreFailureIs500 ==
    /\ (store.called /\ store.err) => resp.status = 500
    /\ resp.status = 404 =>
          /\ StoreAnswered
          /\ \/ Matches(table, req.id) = {}
             \/ (req.op = "text" /\ table[req.id.val].text = <<>>)

\* Every row has its required fields.
RowsComplete ==
    \A i \in DOMAIN table :
        /\ table[i].title # ""
        /\ table[i].artist # ""
        /\ table[i].releaseDate # ""
        /\ table[i].text # <<>>
        /\ table[i].link # ""

\* C9: starting from the empty table every row has non-empty title,
\* artist, release date, text and link; a create or update whose payload
\* lacks one of them answers 400 and leaves the table unchanged; get-text
\* never takes the empty-text 404 path.
C9_RequiredFieldsNeverEmpty ==
    /\ []RowsComplete
    /\ [](resp.error # "No text found for this song")
    /\ [][ (req'.op \in {"create", "update"}
               /\ \/ req'.song.title = ""
                  \/ req'.song.artist = ""
                  \/ req'.song.releaseDate = ""
                  \/ req'.song.text = <<>>
                  \/ req'.song.link = "")
           => resp'.status = 400 /\ table' = table ]_vars

C9_Witness ==
    /\ req.op = "update"
    /\ req.song.text = <<>>
    /\ Matches(table, req.id) # {}
    /\ resp.status = 400

\* C10: an update that answers 200 overwrites title, artist, release date,
\* text, link and group name of the row with the payload's values, keeps
\* the path id as the row's identifier and leaves every other row as it
\* was.
C10_UpdateOverwritesAllFields ==
    [][ (req'.op = "update" /\ resp'.status = 200)
        => LET id == req'.id.val
           IN  /\ DOMAIN table' = DOMAIN table
               /\ table'[id] = [req'.song EXCEPT !.id = id]
               /\ \A i \in DOMAIN table \ {id} : table'[i] = table[i] ]_vars

====
